---- MODULE Spec2Model ----
(***************************************************************************)
(* TextHumanizer backend (src/backend/server.py): a FastAPI service with   *)
(* one rephrase endpoint that forwards text to an LLM provider, and three  *)
(* history endpoints (create, list, delete) over one MongoDB collection.   *)
(*                                                                         *)
(* The state is the history collection, the provider credential of the     *)
(* process environment, and the request/response pair of the request       *)
(* handled last (with a summary of the one before it).  Every handler      *)
(* awaits at most one external operation, so a handler is one action.      *)
(*                                                                         *)
(* Text is a sequence of one-character strings.  A timestamp is a record   *)
(* [minute, second, microsecond] within one fixed hour; its stored form is *)
(* the character sequence datetime.isoformat() produces.                   *)
(***************************************************************************)
EXTENDS Integers, Sequences, FiniteSets, TLC

VARIABLES
    env_key,    \* os.environ.get('EMERGENT_LLM_KEY'): None, "" or a key
    store,      \* db.history: the documents, in insertion (natural) order
    uuids,      \* how many uuid4 values HistoryItem has generated so far
    last,       \* the request handled last and its response
    prev,       \* summary of the request handled before that one
    logged      \* the message of the last logger.error call

vars == <<env_key, store, uuids, last, prev, logged>>

None == "<None>"

\* ------------------------------------------------------------------ bounds

MaxLen     == 3   \* longest completion the provider returns
MaxCreates == 2   \* history records created during a run

\* -------------------------------------------------------------- sequences

Range(s) == {s[i] : i \in 1..Len(s)}

RECURSIVE StringsUpTo(_, _)
StringsUpTo(chars, n) ==
    IF n = 0 THEN {<<>>}
    ELSE LET shorter == StringsUpTo(chars, n - 1)
         IN  shorter \cup {Append(s, c) : s \in shorter, c \in chars}

\* ------------------------------------------------------ str.split / len

\* The characters str.split() with no argument treats as separators.
Whitespace == {" ", "\t", "\n", "\r", "\f"}

isspace(c) == c \in Whitespace

\* str.split(): skip separators, then take characters up to the next
\* separator as one token; runs of separators yield no empty token.
RECURSIVE split_from(_, _, _, _)
split_from(s, i, cur, acc) ==
    IF i > Len(s)
    THEN IF cur = <<>> THEN acc ELSE Append(acc, cur)
    ELSE IF isspace(s[i])
         THEN split_from(s, i + 1, <<>>,
                         IF cur = <<>> THEN acc ELSE Append(acc, cur))
         ELSE split_from(s, i + 1, Append(cur, s[i]), acc)

split(s) == split_from(s, 1, <<>>, <<>>)

\* Mutant of word_count_of: one more than the number of spaces.
word_count_by_spaces(response) ==
    Cardinality({i \in 1..Len(response) : response[i] = " "}) + 1

word_count_of(response) == Len(split(response))

char_count_of(response) == Len(response)

\* ------------------------------------------------------------ tone prompts

tone_prompts ==
    [formal |-> "You are an expert English writer. Rephrase the user's text into formal, professional, grammatically correct English that sounds natural and polished. Preserve the original meaning and context. Only return the rephrased text, nothing else.",
     conversational |-> "You are an expert English writer. Rephrase the user's text into natural, conversational, grammatically correct English that sounds human and friendly. Preserve the original meaning and context. Only return the rephrased text, nothing else.",
     academic |-> "You are an expert academic writer. Rephrase the user's text into scholarly, precise, grammatically correct English suitable for academic papers. Preserve the original meaning and context. Only return the rephrased text, nothing else.",
     creative |-> "You are a creative writer. Rephrase the user's text into engaging, expressive, grammatically correct English with a creative flair. Preserve the original meaning and context. Only return the rephrased text, nothing else."]

\* Mutant of dict_get: the default is dropped.
dict_get_no_default(d, key, default) == IF key \in DOMAIN d THEN d[key] ELSE None

\* dict.get(key, default)
dict_get(d, key, default) == IF key \in DOMAIN d THEN d[key] ELSE default

system_message_for(tone) ==
    dict_get(tone_prompts, tone, tone_prompts["conversational"])

\* --------------------------------------------------------- request records

\* A JSON request body is a record holding the fields the client sent.
Has(body, field) == field \in DOMAIN body

\* The provider was not called.
NotCalled == [called |-> FALSE]

\* The body of an error response: {"detail": ...}, the text in its parts.
Detail(parts) == [detail |-> parts]

\* The request handled last: what was asked, what was answered (the body a
\* record; a JSON list is held in its field items), the instruction given
\* to the provider, and how many provider calls and store operations the
\* handler made.
Exchange(op, request, status, body, system_message, llm_calls, store_ops) ==
    [op |-> op, request |-> request, status |-> status, body |-> body,
     system_message |-> system_message,
     llm_calls |-> llm_calls, store_ops |-> store_ops, provider |-> NotCalled]

\* The same, for a request that reached the provider: what the provider did.
Provided(exchange, outcome) == [exchange EXCEPT !.provider = outcome]

\* What the next request still knows of the one before it.
Summary(r) ==
    [op |-> r.op, status |-> r.status,
     id |-> IF r.op = "delete_history_item" THEN r.request.history_id ELSE 0,
     item |-> IF r.op = "save_history" /\ r.status = 200 THEN r.body
              ELSE [created |-> FALSE]]

\* FastAPI answers 422 from the request model, before the handler runs.
Unprocessable(op, request) ==
    Exchange(op, request, 422, Detail(<<"Field required">>), None, 0, 0)

\* ---------------------------------------------------------------- rephrase

\* Mutant of falsy: the key check is left out.
falsy_never(v) == FALSE

\* `if not api_key`: None and the empty string are both falsy.
falsy(v) == v = None \/ v = ""

\* str(HTTPException(status_code=500, detail="API key not configured"))
KeyErrorText == "500: API key not configured"

\* Mutant of rephrase_failure: a failed request is tried once more.
rephrase_failure_retried(body, cause, system_message, llm_calls) ==
    [op |-> "rephrase", request |-> body, status |-> 500,
     body |-> Detail(<<"Failed to rephrase text: ", cause>>),
     system_message |-> system_message, llm_calls |-> llm_calls * 2,
     store_ops |-> 0, provider |-> NotCalled]

\* lines 100-102: every exception raised inside the try block, the
\* HTTPException of line 64 included, is logged and re-raised as a 500 whose
\* detail carries str(e).
rephrase_failure(body, cause, system_message, llm_calls) ==
    Exchange("rephrase", body, 500,
             Detail(<<"Failed to rephrase text: ", cause>>),
             system_message, llm_calls, 0)

rephrase_log(cause) == <<"Error rephrasing text: ", cause>>

\* RephraseRequest: text is required and any str passes; tone defaults.
rephrase_request_valid(body) == Has(body, "text")

rephrase_tone(body) == IF Has(body, "tone") THEN body.tone ELSE "conversational"

\* POST /api/rephrase.  outcome is what chat.send_message does: it raises
\* with a cause or returns a completion.
rephrase_text(body, outcome) ==
    /\ prev' = Summary(last)
    /\ UNCHANGED <<env_key, store, uuids>>
    /\ IF ~rephrase_request_valid(body)
       THEN /\ last' = Unprocessable("rephrase", body)
            /\ UNCHANGED logged
       ELSE LET tone == rephrase_tone(body)
                system_message == system_message_for(tone)
            IN  IF falsy(env_key)
                THEN /\ last' = rephrase_failure(body, KeyErrorText, None, 0)
                     /\ logged' = rephrase_log(KeyErrorText)
                ELSE IF outcome.raises
                THEN /\ last' = Provided(rephrase_failure(body, outcome.cause,
                                                          system_message, 1),
                                         outcome)
                     /\ logged' = rephrase_log(outcome.cause)
                ELSE /\ last' = Provided(
                            Exchange("rephrase", body, 200,
                                [rephrased_text |-> outcome.response,
                                 original_text |-> body.text,
                                 tone |-> tone,
                                 word_count |-> word_count_of(outcome.response),
                                 char_count |-> char_count_of(outcome.response)],
                                system_message, 1, 0),
                            outcome)
                     /\ UNCHANGED logged

\* GET /api/
root ==
    /\ prev' = Summary(last)
    /\ last' = Exchange("root", [path |-> "/"], 200,
                        [message |-> "TextHumanizer API"], None, 0, 0)
    /\ UNCHANGED <<env_key, store, uuids, logged>>

\* ------------------------------------------------------------- timestamps

ListLimit == 50    \* to_list(50)

Digits == <<"0", "1", "2", "3", "4", "5", "6", "7", "8", "9">>

digit(n) == Digits[n + 1]

digit_value(c) ==
    CASE c = "0" -> 0 [] c = "1" -> 1 [] c = "2" -> 2 [] c = "3" -> 3
      [] c = "4" -> 4 [] c = "5" -> 5 [] c = "6" -> 6 [] c = "7" -> 7
      [] c = "8" -> 8 [] c = "9" -> 9

two_digits(n) == <<digit(n \div 10), digit(n % 10)>>

six_digits(n) ==
    <<digit(n \div 100000), digit((n \div 10000) % 10), digit((n \div 1000) % 10),
      digit((n \div 100) % 10), digit((n \div 10) % 10), digit(n % 10)>>

\* The date and hour every timestamp of a run shares, and the UTC offset.
DateHour == <<"2", "0", "2", "4", "-", "0", "1", "-", "0", "1", "T", "0", "0", ":">>

UtcOffset == <<"+", "0", "0", ":", "0", "0">>

\* datetime.isoformat(): the fraction is written only when it is not zero.
isoformat(ts) ==
    DateHour \o two_digits(ts.minute) \o <<":">> \o two_digits(ts.second)
        \o (IF ts.microsecond = 0 THEN <<>>
            ELSE <<".">> \o six_digits(ts.microsecond))
        \o UtcOffset

number(s, from, to) ==
    LET RECURSIVE val(_, _)
        val(i, acc) == IF i > to THEN acc
                       ELSE val(i + 1, acc * 10 + digit_value(s[i]))
    IN  val(from, 0)

\* datetime.fromisoformat(): minute and second at fixed columns, then an
\* optional fraction introduced by "."
fromisoformat(s) ==
    LET m == Len(DateHour) + 1
    IN  [minute |-> number(s, m, m + 1),
         second |-> number(s, m + 3, m + 4),
         microsecond |-> IF s[m + 5] = "." THEN number(s, m + 6, m + 11) ELSE 0]

\* Chronological order of two datetimes.
datetime_key(ts) == (ts.minute * 60 + ts.second) * 1000000 + ts.microsecond

\* The code point of each character a stored timestamp contains.
code_point(c) ==
    CASE c = "+" -> 43
      [] c = "-" -> 45
      [] c = "." -> 46
      [] c = ":" -> 58
      [] c = "T" -> 84
      [] OTHER   -> 48 + digit_value(c)

\* MongoDB orders two strings by their bytes; a proper prefix comes first.
RECURSIVE string_leq_from(_, _, _)
string_leq_from(a, b, i) ==
    IF i > Len(a) THEN TRUE
    ELSE IF i > Len(b) THEN FALSE
    ELSE IF a[i] = b[i] THEN string_leq_from(a, b, i + 1)
    ELSE code_point(a[i]) < code_point(b[i])

string_leq(a, b) == string_leq_from(a, b, 1)

\* --------------------------------------------------------- history store

\* A history id is an opaque uuid4 string.  The model names it by an
\* integer: k > 0 is the k-th id generated since the process started, -k the
\* id of the k-th document the collection already held, 0 a string that was
\* never generated.
uuid4(n) == n

\* HistoryItem(**input.model_dump()): id and timestamp come from the
\* default factories.
HistoryItem(input, id, now) ==
    [id |-> id, original_text |-> input.original_text,
     rephrased_text |-> input.rephrased_text, tone |-> input.tone,
     timestamp |-> now]

\* The document insert_one stores: the dumped item with the timestamp in
\* ISO form, and the _id the driver adds.
document(item, oid) ==
    [oid |-> oid, id |-> item.id, original_text |-> item.original_text,
     rephrased_text |-> item.rephrased_text, tone |-> item.tone,
     timestamp |-> isoformat(item.timestamp)]

\* find({}, {"_id": 0}) drops _id; the loop of lines 120-122 parses the
\* timestamp; the response model keeps the HistoryItem fields.
listed_item(doc) ==
    [id |-> doc.id, original_text |-> doc.original_text,
     rephrased_text |-> doc.rephrased_text, tone |-> doc.tone,
     timestamp |-> fromisoformat(doc.timestamp)]

\* Whether a stored timestamp sorts before key: strictly greater than it,
\* or (strict = FALSE) not smaller than it.
sorts_before(timestamp, key, strict) ==
    IF strict THEN ~string_leq(timestamp, key) ELSE string_leq(key, timestamp)

\* How many leading documents of s, sorted by timestamp descending, sort
\* before key; documents 1..lo do and those past hi do not.
RECURSIVE count_before(_, _, _, _, _)
count_before(s, key, strict, lo, hi) ==
    IF lo >= hi THEN lo
    ELSE LET mid == (lo + hi + 1) \div 2
         IN  IF sorts_before(s[mid].timestamp, key, strict)
             THEN count_before(s, key, strict, mid, hi)
             ELSE count_before(s, key, strict, lo, mid - 1)

\* Where a document may go in a sequence sorted by timestamp, descending:
\* after every greater one and before every smaller one, so anywhere among
\* its equals (the server promises no order among equal keys).
sort_positions(d, s) ==
    IF s = <<>> \/ ~string_leq(d.timestamp, s[1].timestamp) THEN {1}
    ELSE (count_before(s, d.timestamp, TRUE, 0, Len(s)) + 1)
             .. (count_before(s, d.timestamp, FALSE, 1, Len(s)) + 1)

insert_at(s, p, d) == SubSeq(s, 1, p - 1) \o <<d>> \o SubSeq(s, p, Len(s))

\* sort("timestamp", -1): every order of the documents that is descending
\* in the stored timestamp string.
RECURSIVE sort_descending_from(_, _, _)
sort_descending_from(docs, i, orders) ==
    IF i > Len(docs) \/ orders = {} THEN orders
    ELSE sort_descending_from(docs, i + 1,
            UNION {{insert_at(s, p, docs[i]) : p \in sort_positions(docs[i], s)}
                   : s \in orders})

sort_descending(docs) == sort_descending_from(docs, 1, {<<>>})

\* Mutant of to_list: to_list(None), no cap.
to_list_uncapped(s, length) == s

\* to_list(length)
to_list(s, length) == SubSeq(s, 1, IF Len(s) < length THEN Len(s) ELSE length)

\* Mutant of find_results: the sort is left out.
find_results_unsorted(docs) == {to_list(docs, ListLimit)}

\* find().sort().to_list(50): the results the query may return.
find_results(docs) == {to_list(s, ListLimit) : s \in sort_descending(docs)}

items_of(docs) == [i \in 1..Len(docs) |-> listed_item(docs[i])]

\* delete_one({"id": history_id}): the first matching document goes.
first_match(docs, history_id) ==
    LET hits == {i \in 1..Len(docs) : docs[i].id = history_id}
    IN  IF hits = {} THEN 0 ELSE CHOOSE i \in hits : \A j \in hits : i <= j

\* Mutants of delete_one: a filter that matches nothing, and delete_many
\* with an empty filter.
delete_one_nothing(docs, history_id) == docs

delete_one_everything(docs, history_id) ==
    IF first_match(docs, history_id) = 0 THEN docs ELSE <<>>

delete_one(docs, history_id) ==
    LET i == first_match(docs, history_id)
    IN  IF i = 0 THEN docs
        ELSE SubSeq(docs, 1, i - 1) \o SubSeq(docs, i + 1, Len(docs))

deleted_count(docs, history_id) == IF first_match(docs, history_id) = 0 THEN 0 ELSE 1

\* The except branches of the three history handlers: log the cause, answer
\* 500 with the handler's fixed text.
store_failure(op, request, cause, log_text, text) ==
    /\ logged' = <<log_text, cause>>
    /\ last' = Exchange(op, request, 500, Detail(<<text>>), None, 0, 1)

\* HistoryCreate: three required str fields.
history_create_valid(body) ==
    Has(body, "original_text") /\ Has(body, "rephrased_text") /\ Has(body, "tone")

\* POST /api/history.  now is what datetime.now(timezone.utc) reads; raised
\* is None, or the cause insert_one raises with.
save_history(body, now, raised) ==
    /\ prev' = Summary(last)
    /\ UNCHANGED env_key
    /\ IF ~history_create_valid(body)
       THEN /\ last' = Unprocessable("save_history", body)
            /\ UNCHANGED <<store, uuids, logged>>
       ELSE LET history_obj == HistoryItem(body, uuid4(uuids + 1), now)
                doc == document(history_obj, uuids + 1)
            IN  /\ uuids' = uuids + 1
                /\ IF raised # None
                   THEN /\ store_failure("save_history", body, raised,
                                         "Error saving history: ",
                                         "Failed to save history")
                        /\ UNCHANGED store
                   ELSE /\ store' = Append(store, doc)
                        /\ last' = Exchange("save_history", body, 200,
                                            history_obj, None, 0, 1)
                        /\ UNCHANGED logged

\* GET /api/history
get_history(raised) ==
    /\ prev' = Summary(last)
    /\ UNCHANGED <<env_key, store, uuids>>
    /\ IF raised # None
       THEN store_failure("get_history", [path |-> "/history"], raised,
                          "Error fetching history: ", "Failed to fetch history")
       ELSE /\ \E history_items \in find_results(store) :
                last' = Exchange("get_history", [path |-> "/history"], 200,
                                 [items |-> items_of(history_items)],
                                 None, 0, 1)
            /\ UNCHANGED logged

\* DELETE /api/history/{history_id}
delete_history_item(history_id, raised) ==
    /\ prev' = Summary(last)
    /\ UNCHANGED <<env_key, uuids>>
    /\ LET request == [history_id |-> history_id]
       IN  IF raised # None
           THEN /\ store_failure("delete_history_item", request, raised,
                                 "Error deleting history: ",
                                 "Failed to delete history")
                /\ UNCHANGED store
           ELSE /\ store' = delete_one(store, history_id)
                /\ UNCHANGED logged
                /\ IF deleted_count(store, history_id) = 0
                   THEN last' = Exchange("delete_history_item", request, 404,
                                    Detail(<<"History item not found">>),
                                    None, 0, 1)
                   ELSE last' = Exchange("delete_history_item", request, 200,
                                    [message |-> "History item deleted"],
                                    None, 0, 1)

\* ------------------------------------------------------------------ inputs

KnownTones == {"formal", "conversational", "academic", "creative"}

Tones == KnownTones \cup {"invalid_tone", ""}

ProviderErrors == {"Connection error.", "Rate limit exceeded"}

StoreErrors == {"ServerSelectionTimeoutError"}

Raises(cause) == [raises |-> TRUE, cause |-> cause]

Returns(response) == [raises |-> FALSE, response |-> response]

\* Request bodies of the rephrase endpoint: every tone, no tone, an empty
\* text, no text.
RephraseBodies ==
    {[text |-> <<"a">>, tone |-> n] : n \in Tones}
        \cup {[text |-> <<>>, tone |-> "conversational"],
              [text |-> <<"a", " ", "b">>], [tone |-> "formal"]}

\* What chat.send_message may do.
Outcomes ==
    {Raises(c) : c \in ProviderErrors}
        \cup {Returns(r) : r \in StringsUpTo({"a", " "}, MaxLen)}
        \cup {Returns(<<"a", "\n", "\t", "a">>), Returns(<<"\r", "\f">>)}

\* The few of them the full service model exercises next to the store.
FewRephraseBodies == {[text |-> <<"a">>], [tone |-> "formal"]}

FewOutcomes == {Raises("Connection error."), Returns(<<"b">>)}

ValidHistoryBody ==
    [original_text |-> <<"a">>, rephrased_text |-> <<"b">>, tone |-> "formal"]

HistoryBodies == {ValidHistoryBody, [original_text |-> <<"a">>]}

\* What the wall clock may read when an item is built.  The readings of
\* successive creates need not increase: two reads may agree, a later read
\* may be lower after the clock was set back, and an item built before
\* another may be inserted after it while both requests await the store.
ClockReadings ==
    {[minute |-> 0, second |-> 0, microsecond |-> 0],
     [minute |-> 0, second |-> 0, microsecond |-> 500000],
     [minute |-> 1, second |-> 0, microsecond |-> 0]}

\* The documents of earlier runs the collection holds when the process
\* starts: all written by save_history, one every second, oldest first.
EarlierDocument(k) ==
    document(HistoryItem(ValidHistoryBody, uuid4(-k),
                         [minute |-> 0, second |-> k - 1,
                          microsecond |-> IF k % 2 = 1 THEN 0 ELSE 500000]),
             -k)

EarlierDocuments(n) == [k \in 1..n |-> EarlierDocument(k)]

DeleteIds == {uuid4(k) : k \in (-1)..MaxCreates}

\* ----------------------------------------------------------- specification

NoRequest == Exchange("none", [path |-> ""], 0, Detail(<<>>), None, 0, 0)

InitWith(keys, counts) ==
    /\ env_key \in keys
    /\ store \in {EarlierDocuments(n) : n \in counts}
    /\ uuids = 0
    /\ last = NoRequest
    /\ prev = Summary(NoRequest)
    /\ logged = <<>>

\* The whole service, next to a collection that is empty or holds one
\* earlier document.
Init == InitWith({None, "sk-emergent"}, {0, 1})

Rephrase == \E body \in FewRephraseBodies, outcome \in FewOutcomes :
                rephrase_text(body, outcome)

Create ==
    /\ uuids < MaxCreates
    /\ \E body \in HistoryBodies, now \in ClockReadings,
          raised \in {None} \cup StoreErrors :
            save_history(body, now, raised)

List == \E raised \in {None} \cup StoreErrors : get_history(raised)

Delete == \E history_id \in DeleteIds, raised \in {None} \cup StoreErrors :
              delete_history_item(history_id, raised)

Next == Rephrase \/ Create \/ List \/ Delete

Spec == Init /\ [][Next]_vars

\* The history endpoints next to a collection one document short of the
\* list limit.
InitBacklog == InitWith({"sk-emergent"}, {ListLimit - 1})

CreateStored ==
    /\ uuids < MaxCreates
    /\ \E now \in ClockReadings : save_history(ValidHistoryBody, now, None)

ListStored == get_history(None)

DeleteStored == \E history_id \in DeleteIds : delete_history_item(history_id, None)

NextBacklog == CreateStored \/ ListStored \/ DeleteStored

SpecBacklog == InitBacklog /\ [][NextBacklog]_vars

\* The rephrase endpoint alone, over all its request bodies and outcomes.
InitRephrase == InitWith({None, "", "sk-emergent"}, {1})

Root == root

RephraseAny == \E body \in RephraseBodies, outcome \in Outcomes :
                   rephrase_text(body, outcome)

NextRephrase == Root \/ RephraseAny

SpecRephrase == InitRephrase /\ [][NextRephrase]_vars

\* The same, in a process whose environment holds the key.
InitKeyed == InitWith({"sk-emergent"}, {1})

SpecRephraseKeyed == InitKeyed /\ [][NextRephrase]_vars

\* ------------------------------------------------------- rephrase: claims

\* The last request was a rephrase request that passed the request model,
\* so the handler ran.
RephraseHandled == last.op = "rephrase" /\ last.status # 422

\* The provider was called for the last request.
ProviderCalled == last.llm_calls = 1

KeyAbsent == env_key \in {None, ""}

\* C4: a rephrase request with a tone outside the four known ones gets the
\* instruction of "conversational", fails for no reason but a missing key or
\* a provider error, and is answered 200 when the provider returns; each
\* known tone gets its own instruction, and the four instructions differ.
C4_ToneFallback ==
    /\ \A a, b \in KnownTones : a # b => tone_prompts[a] # tone_prompts[b]
    /\ RephraseHandled =>
        LET tone == rephrase_tone(last.request)
        IN  /\ ProviderCalled =>
                /\ tone \in KnownTones => last.system_message = tone_prompts[tone]
                /\ tone \notin KnownTones =>
                       last.system_message = tone_prompts["conversational"]
                /\ ~last.provider.raises => last.status = 200 /\ last.body.tone = tone
            /\ last.status = 500 =>
                   last.body.detail[2] \in ProviderErrors \cup {KeyErrorText}

C4_Witness ==
    /\ RephraseHandled
    /\ last.request = [text |-> <<"a">>, tone |-> "invalid_tone"]
    /\ last.status = 200
    /\ last.system_message = tone_prompts["conversational"]

\* C5: a rephrase request whose text is empty is answered 422, and no
\* provider call is made for it.
C5_EmptyTextRejected ==
    (last.op = "rephrase" /\ Has(last.request, "text") /\ last.request.text = <<>>)
        => last.status = 422 /\ last.llm_calls = 0

\* The starts of the whitespace-delimited tokens of s: a character that is
\* no separator and follows a separator or nothing.
TokenStarts(s) ==
    {i \in 1..Len(s) : ~isspace(s[i]) /\ (i = 1 \/ isspace(s[i - 1]))}

\* C6: a successful rephrase response carries the completion unchanged and
\* the request text, word_count is the number of whitespace-delimited
\* tokens of the completion, char_count is its length, and both are >= 0.
C6_Counts ==
    (RephraseHandled /\ last.status = 200) =>
        /\ last.body.rephrased_text = last.provider.response
        /\ last.body.original_text = last.request.text
        /\ last.body.word_count = Cardinality(TokenStarts(last.body.rephrased_text))
        /\ last.body.char_count = Len(last.body.rephrased_text)
        /\ last.body.word_count >= 0 /\ last.body.char_count >= 0

C6_Witness ==
    /\ RephraseHandled /\ last.status = 200
    /\ last.body.rephrased_text = <<"a", "\n", "\t", "a">>
    /\ last.body.word_count = 2 /\ last.body.char_count = 4

\* C7: the rephrase operation answers 500 with no result when the key is
\* absent, without calling the provider, and when the provider call raises;
\* it calls the provider at most once and answers 200 only with the
\* completion of that one call.
C7_FailsWithoutResult ==
    RephraseHandled =>
        /\ last.llm_calls <= 1
        /\ KeyAbsent =>
               last.status = 500 /\ last.llm_calls = 0 /\ DOMAIN last.body = {"detail"}
        /\ (ProviderCalled /\ last.provider.raises) =>
               last.status = 500 /\ DOMAIN last.body = {"detail"}
        /\ last.status = 200 => ProviderCalled /\ ~last.provider.raises
        /\ last.status \in {200, 500}

C7_Witness ==
    /\ RephraseHandled /\ env_key = None /\ last.status = 500 /\ last.llm_calls = 0
    /\ prev.op = "rephrase" /\ prev.status = 500

\* The fixed text each operation answers a failure with.
FailureText ==
    [rephrase |-> "Failed to rephrase text",
     save_history |-> "Failed to save history",
     get_history |-> "Failed to fetch history",
     delete_history_item |-> "Failed to delete history"]

\* C8: every 500 of the four operations carries that operation's fixed text
\* and nothing of the cause, which is logged.
C8_GenericFailure ==
    last.status = 500 =>
        /\ Len(logged) = 2
        /\ last.body.detail = <<FailureText[last.op]>>
        /\ logged[2] \notin Range(last.body.detail)

\* -------------------------------------------------------- history: claims

StoredIds(docs) == {docs[i].id : i \in 1..Len(docs)}

without(docs, i) == SubSeq(docs, 1, i - 1) \o SubSeq(docs, i + 1, Len(docs))

\* The step handles a delete request for id that the store answers.
DeleteAnswered(id) ==
    /\ last'.op = "delete_history_item"
    /\ last'.request.history_id = id
    /\ last'.status # 500

C1_Step ==
    \A id \in DeleteIds :
        /\ (DeleteAnswered(id) /\ id \in StoredIds(store)) =>
               last'.status = 200 /\ id \notin StoredIds(store')
        /\ (DeleteAnswered(id) /\ last.op = "delete_history_item"
              /\ last.request.history_id = id /\ last.status = 200) =>
               last'.status = 404

\* C1: a delete of a stored id that the store answers is answered 200 and
\* removes the record; a second delete of that id, right after it, is
\* answered 404.
C1_DeleteTwice == [][C1_Step]_vars

C1_Witness ==
    /\ last.op = "delete_history_item" /\ last.status = 404
    /\ last.request.history_id = uuid4(1)
    /\ prev.op = "delete_history_item" /\ prev.status = 200
    /\ prev.id = last.request.history_id

\* The last two requests were a successful create and then a successful list.
ListedAfterCreate ==
    /\ last.op = "get_history" /\ last.status = 200
    /\ prev.op = "save_history" /\ prev.status = 200

\* The record created by the previous request has a later timestamp than
\* every other stored record.
CreatedIsLatest ==
    \A i \in 1..Len(store) :
        store[i].id # prev.item.id =>
            datetime_key(fromisoformat(store[i].timestamp))
                < datetime_key(prev.item.timestamp)

\* C2 as stated: a list right after a successful create has the created
\* record, as the create response gave it, as its first entry.
C2_CreatedListedFirst ==
    ListedAfterCreate => Len(last.body.items) > 0 /\ last.body.items[1] = prev.item

\* C2, amended: a list right after a successful create holds the created
\* record, as the create response gave it, when at most 50 records are
\* stored, and has it as its first entry when its timestamp is later than
\* that of every other stored record.
C2_CreatedListedFirstIfLatest ==
    ListedAfterCreate =>
        /\ Len(store) <= ListLimit => prev.item \in Range(last.body.items)
        /\ CreatedIsLatest =>
               Len(last.body.items) > 0 /\ last.body.items[1] = prev.item

C2_Witness ==
    /\ ListedAfterCreate /\ CreatedIsLatest
    /\ Len(last.body.items) = 3
    /\ last.body.items[1] = prev.item
    /\ prev.item.timestamp.microsecond # 0

\* The ids of the n documents stored last.
LastStoredIds(docs, n) ==
    {docs[i].id : i \in {j \in 1..Len(docs) : j > Len(docs) - n}}

Listed == last.body.items

ListedIds == {Listed[i].id : i \in 1..Len(Listed)}

ListedDescending ==
    \A i \in 1..(Len(Listed) - 1) :
        datetime_key(Listed[i].timestamp) >= datetime_key(Listed[i + 1].timestamp)

\* C3 as stated: a successful list returns at most 50 entries, they are the
\* records created last, and their timestamps do not increase.
C3_ListsLastCreated ==
    (last.op = "get_history" /\ last.status = 200) =>
        /\ Len(Listed) <= ListLimit
        /\ ListedIds = LastStoredIds(store, ListLimit)
        /\ ListedDescending

\* C3, amended: a successful list returns the stored records, or 50 of them
\* when more are stored; no record left out has a later timestamp than a
\* returned one; and the timestamps of the entries do not increase.
C3_ListsLatestTimestamps ==
    (last.op = "get_history" /\ last.status = 200) =>
        /\ Len(Listed) <= ListLimit
        /\ Len(Listed) = IF Len(store) < ListLimit THEN Len(store) ELSE ListLimit
        /\ Cardinality(ListedIds) = Len(Listed)
        /\ \A i \in 1..Len(Listed) :
               \E j \in 1..Len(store) : Listed[i] = listed_item(store[j])
        /\ \A j \in 1..Len(store) :
               store[j].id \notin ListedIds =>
                   \A i \in 1..Len(Listed) :
                       datetime_key(fromisoformat(store[j].timestamp))
                           <= datetime_key(Listed[i].timestamp)
        /\ ListedDescending

C3_Witness ==
    /\ last.op = "get_history" /\ last.status = 200
    /\ Len(store) = ListLimit + 1
    /\ Len(Listed) = ListLimit
    /\ uuid4(2) \in ListedIds /\ uuid4(1) \notin ListedIds

HistoryOps == {"save_history", "get_history", "delete_history_item"}

C9_Step ==
    /\ last'.llm_calls <= 1 /\ last'.store_ops <= 1
    /\ last'.op = "rephrase" => last'.store_ops = 0 /\ store' = store
    /\ last'.op \in HistoryOps => last'.store_ops = 1 /\ last'.llm_calls = 0

\* C9 as stated: a request makes at most one provider call and at most one
\* store operation; a rephrase request makes no store operation and leaves
\* the store as it was; a history request makes exactly one store operation
\* and no provider call.
C9_OneCallOneOperation == [][C9_Step]_vars

C9_StepHandled ==
    /\ last'.llm_calls <= 1 /\ last'.store_ops <= 1
    /\ last'.op = "rephrase" => last'.store_ops = 0 /\ store' = store
    /\ last'.op \in HistoryOps =>
        /\ last'.llm_calls = 0
        /\ last'.store_ops = IF last'.status = 422 THEN 0 ELSE 1

\* C9, amended: as stated, but a history request makes exactly one store
\* operation when it passes the request model, and none when it is answered
\* 422.
C9_OneCallOneOperationIfHandled == [][C9_StepHandled]_vars

C9_Witness ==
    /\ last.op = "rephrase" /\ last.status = 200
    /\ last.llm_calls = 1 /\ last.store_ops = 0
    /\ prev.op = "save_history" /\ prev.status = 200
    /\ Len(store) = 2

C10_Step ==
    /\ last'.op \in {"rephrase", "get_history"} => store' = store
    /\ last'.op = "save_history" =>
        IF last'.status = 200
        THEN /\ Len(store') = Len(store) + 1
             /\ SubSeq(store', 1, Len(store)) = store
             /\ store'[Len(store')].id = last'.body.id
             /\ listed_item(store'[Len(store')]) = last'.body
             /\ last'.body.id \notin StoredIds(store)
             /\ last'.body.timestamp \in ClockReadings
        ELSE store' = store
    /\ last'.op = "delete_history_item" =>
        IF last'.status = 200
        THEN \E i \in 1..Len(store) :
                /\ store[i].id = last'.request.history_id
                /\ store' = without(store, i)
        ELSE store' = store

\* C10: create adds one record, with an id no stored record has, and
\* changes no other; list and rephrase change nothing; a delete answered
\* 200 removes one record with the given id and changes no other; a delete
\* answered 404 or 500 changes nothing.
C10_RecordsImmutable == [][C10_Step]_vars

C10_Witness ==
    /\ last.op = "delete_history_item" /\ last.status = 200
    /\ last.request.history_id = uuid4(1)
    /\ StoredIds(store) = {uuid4(-1), uuid4(2)}

====
